---- MODULE Spec2Model ----
(***************************************************************************)
(* Model of jira_mcp.py: the JiraManager backend client (query building,   *)
(* response normalization, the two-step transition) and the MCP dispatcher *)
(* (read_resource, call_tool).                                             *)
(*                                                                         *)
(* Python / JSON values are tagged records:                                *)
(*   [t |-> "null"]            None / JSON null                            *)
(*   [t |-> "str",   v |-> s]  a str, s a TLA+ string                      *)
(*   [t |-> "chars", v |-> s]  a str kept as a sequence of characters      *)
(*                             (the strings the code calls .lower() on)    *)
(*   [t |-> "num",   v |-> n]  an int                                      *)
(*   [t |-> "bool",  v |-> b]  a bool                                      *)
(*   [t |-> "obj",   f |-> f]  a dict, f a function from keys to values    *)
(*   [t |-> "arr",   a |-> a]  a list                                      *)
(*   [t |-> "raise", exc |-> e] the evaluation raised exception e          *)
(* Non-ASCII characters of the source's literals are dropped or            *)
(* transliterated ("Sin titulo" for the accented original).                *)
(***************************************************************************)
EXTENDS Integers, Sequences, FiniteSets, TLC

VARIABLES pc, frame, op, sent, recv, outcome, result

vars == <<pc, frame, op, sent, recv, outcome, result>>

(***************************************************************************)
(* Bounds of the model.                                                    *)
(***************************************************************************)
\* longest "issues" list in a search response
MaxIssues == 2
\* longest "transitions" list in a transitions response
MaxTransitions == 2
\* longest list of projects in a project response
MaxProjects == 2

(***************************************************************************)
(* Python values.                                                          *)
(***************************************************************************)
JNull == [t |-> "null"]
JStr(s) == [t |-> "str", v |-> s]
JChars(s) == [t |-> "chars", v |-> s]
JNum(n) == [t |-> "num", v |-> n]
JBool(b) == [t |-> "bool", v |-> b]
JObj(f) == [t |-> "obj", f |-> f]
JArr(a) == [t |-> "arr", a |-> a]
Raise(e) == [t |-> "raise", exc |-> e]
IsRaise(x) == x.t = "raise"

EmptyMap == [k \in {} |-> JNull]
EmptyObj == JObj(EmptyMap)

\* bool(x) of a Python value
Truthy(j) ==
    CASE j.t = "null" -> FALSE
      [] j.t = "str" -> j.v # ""
      [] j.t = "chars" -> j.v # <<>>
      [] j.t = "num" -> j.v # 0
      [] j.t = "bool" -> j.v
      [] j.t = "obj" -> DOMAIN j.f # {}
      [] j.t = "arr" -> j.a # <<>>

\* j.get(k, d): a dict lookup with a default; any other receiver has no .get
Get(j, k, d) ==
    IF IsRaise(j) THEN j
    ELSE IF j.t = "obj" THEN (IF k \in DOMAIN j.f THEN j.f[k] ELSE d)
    ELSE Raise("AttributeError")

\* j[k] with a string key
Item(j, k) ==
    IF IsRaise(j) THEN j
    ELSE IF j.t = "obj" THEN (IF k \in DOMAIN j.f THEN j.f[k] ELSE Raise("KeyError"))
    ELSE Raise("TypeError")

\* j[0]
Index0(j) ==
    IF IsRaise(j) THEN j
    ELSE IF j.t = "arr" THEN (IF j.a # <<>> THEN j.a[1] ELSE Raise("IndexError"))
    ELSE IF j.t = "obj" THEN Raise("KeyError")
    ELSE IF j.t \in {"str", "chars"} THEN (IF Truthy(j) THEN j ELSE Raise("IndexError"))
    ELSE Raise("TypeError")

\* the first raised exception of a sequence of evaluations, or none
RECURSIVE FirstRaise(_)
FirstRaise(s) ==
    IF s = <<>> THEN JNull
    ELSE IF IsRaise(Head(s)) THEN Head(s)
    ELSE FirstRaise(Tail(s))

(***************************************************************************)
(* Strings kept as characters: str.lower() and the f-string rendering.     *)
(***************************************************************************)
LowerChar(c) ==
    CASE c = "M" -> "m"
      [] c = "E" -> "e"
      [] c = "D" -> "d"
      [] c = "O" -> "o"
      [] c = "G" -> "g"
      [] c = "B" -> "b"
      [] OTHER -> c

lower(s) == [i \in 1..Len(s) |-> LowerChar(s[i])]

RECURSIVE Str(_)
Str(s) == IF s = <<>> THEN "" ELSE Head(s) \o Str(Tail(s))

\* sep.join(parts)
RECURSIVE Join(_, _)
Join(sep, parts) ==
    IF parts = <<>> THEN ""
    ELSE IF Len(parts) = 1 THEN parts[1]
    ELSE parts[1] \o sep \o Join(sep, Tail(parts))

(***************************************************************************)
(* HTTP: requests, responses, raise_for_status.                            *)
(***************************************************************************)
HttpRequest(method, path, params, json) ==
    [method |-> method, path |-> path, params |-> params, json |-> json]

\* a response whose status is never looked at
NeverRaisesForStatus(response) == FALSE

\* response.raise_for_status(): a 4xx or 5xx status raises
RaisesForStatus(response) == response.status >= 400

Return(v) == [t |-> "return", value |-> v]
Request(req, o) == [t |-> "request", req |-> req, op |-> o]

MgrOp(name, step, args) == [name |-> name, step |-> step, args |-> args]
NoOp == MgrOp("none", "none", EmptyMap)

IssueFields == "summary,status,assignee,priority,issuetype,created,updated,description"

(***************************************************************************)
(* JiraManager.search_issues: the query expression.                        *)
(***************************************************************************)
\* a comparison with "me" that forgets .lower()
LiteralMeAssigneeCondition(assignee) ==
    IF assignee.v = <<"m", "e">>
    THEN "assignee = currentUser()"
    ELSE "assignee = '" \o Str(assignee.v) \o "'"

\* the condition contributed by a truthy assignee
AssigneeCondition(assignee) ==
    IF lower(assignee.v) = <<"m", "e">>
    THEN "assignee = currentUser()"
    ELSE "assignee = '" \o Str(assignee.v) \o "'"

ProjectCondition(project) == "project = '" \o project.v \o "'"

Conditions(assignee, project) ==
    (IF Truthy(assignee) THEN <<AssigneeCondition(assignee)>> ELSE <<>>)
    \o (IF Truthy(project) THEN <<ProjectCondition(project)>> ELSE <<>>)

\* a builder that adds the filters to a given raw query too
FilteringBuildJql(jql, assignee, project) ==
    LET conditions == Conditions(assignee, project)
    IN  IF ~Truthy(jql)
        THEN JStr(IF conditions # <<>> THEN Join(" AND ", conditions)
                  ELSE "order by updated DESC")
        ELSE JStr(Join(" AND ", <<jql.v>> \o conditions))

\* the value of jql after lines 100-110
BuildJql(jql, assignee, project) ==
    IF ~Truthy(jql)
    THEN LET conditions == Conditions(assignee, project)
         IN  JStr(IF conditions # <<>> THEN Join(" AND ", conditions)
                  ELSE "order by updated DESC")
    ELSE jql

SearchParams(jql, assignee, project, max_results) ==
    JObj([jql |-> BuildJql(jql, assignee, project),
          maxResults |-> max_results,
          fields |-> JStr(IssueFields)])

(***************************************************************************)
(* Normalization of a raw issue (search_issues 129-140, get_issue 154-166) *)
(***************************************************************************)
SinTitulo == JStr("Sin titulo")
Desconocido == JStr("Desconocido")
SinAsignar == JStr("Sin asignar")
SinPrioridad == JStr("Sin prioridad")

\* fields.get(k, {}).get(name, d), without the null guard
UnguardedName(fields, k, name, d) == Get(Get(fields, k, EmptyObj), name, d)

\* fields.get(k, {}).get(name, d) if fields.get(k) else d
GuardedName(fields, k, name, d) ==
    LET guard == Get(fields, k, JNull)
    IN  IF IsRaise(guard) THEN guard
        ELSE IF Truthy(guard) THEN Get(Get(fields, k, EmptyObj), name, d)
        ELSE d

\* fields.get("description", {}).get("content", [{}])[0]
\*       .get("content", [{}])[0].get("text", "") if fields.get("description") else ""
DescriptionText(fields) ==
    LET guard == Get(fields, "description", JNull)
    IN  IF IsRaise(guard) THEN guard
        ELSE IF Truthy(guard)
        THEN Get(Index0(Get(Index0(Get(Get(fields, "description", EmptyObj),
                                       "content", JArr(<<EmptyObj>>))),
                            "content", JArr(<<EmptyObj>>))),
                 "text", JStr(""))
        ELSE JStr("")

JiraIssue(key, summary, status, assignee, priority, issue_type, created, updated, description) ==
    LET r == FirstRaise(<<key, summary, status, assignee, priority, issue_type,
                          created, updated, description>>)
    IN  IF IsRaise(r) THEN r
        ELSE [t |-> "issue", key |-> key, summary |-> summary, status |-> status,
              assignee |-> assignee, priority |-> priority,
              issue_type |-> issue_type, created |-> created, updated |-> updated,
              description |-> description]

IssueFromJson(issue) ==
    LET fields == Item(issue, "fields")
    IN  IF IsRaise(fields) THEN fields
        ELSE JiraIssue(Item(issue, "key"),
                       Get(fields, "summary", SinTitulo),
                       Get(Get(fields, "status", EmptyObj), "name", Desconocido),
                       GuardedName(fields, "assignee", "displayName", SinAsignar),
                       GuardedName(fields, "priority", "name", SinPrioridad),
                       Get(Get(fields, "issuetype", EmptyObj), "name", Desconocido),
                       Get(fields, "created", JStr("")),
                       Get(fields, "updated", JStr("")),
                       DescriptionText(fields))

\* the list built by a loop or comprehension over a JSON list: the first
\* element whose construction raises ends it
RECURSIVE MapList(_, _)
MapList(F(_), a) ==
    IF a = <<>> THEN <<>>
    ELSE LET x == F(Head(a))
         IN  IF IsRaise(x) THEN <<x>> ELSE <<x>> \o MapList(F, Tail(a))

ListResult(F(_), j) ==
    IF IsRaise(j) THEN j
    ELSE IF j.t # "arr" THEN Raise("TypeError")
    ELSE LET out == MapList(F, j.a)
         IN  IF out # <<>> /\ IsRaise(out[Len(out)]) THEN out[Len(out)]
             ELSE Return(out)

(***************************************************************************)
(* JiraManager.get_projects: normalization of a raw project.               *)
(***************************************************************************)
JiraProject(key, name, project_type, lead) ==
    LET r == FirstRaise(<<key, name, project_type, lead>>)
    IN  IF IsRaise(r) THEN r
        ELSE [t |-> "project", key |-> key, name |-> name,
              project_type |-> project_type, lead |-> lead]

ProjectFromJson(project) ==
    JiraProject(Item(project, "key"),
                Item(project, "name"),
                Get(project, "projectTypeKey", JStr("unknown")),
                Get(Get(project, "lead", EmptyObj), "displayName", SinAsignar))

(***************************************************************************)
(* JiraManager.transition_issue: resolution of the transition name.        *)
(***************************************************************************)
\* s.lower() of a Python value: only a str has it
LowerOf(j) ==
    IF IsRaise(j) THEN j
    ELSE IF j.t = "chars" THEN JChars(lower(j.v))
    ELSE Raise("AttributeError")

\* a comparison that forgets .lower() on both sides
ExactTransitionMatches(transition, transition_name) ==
    LET l == Item(transition, "name")
    IN  IF IsRaise(l) THEN l
        ELSE IF l.t # "chars" \/ transition_name.t # "chars" THEN Raise("AttributeError")
        ELSE JBool(l.v = transition_name.v)

\* transition["name"].lower() == transition_name.lower()
TransitionMatches(transition, transition_name) ==
    LET l == LowerOf(Item(transition, "name"))
        r == LowerOf(transition_name)
    IN  IF IsRaise(l) THEN l
        ELSE IF IsRaise(r) THEN r
        ELSE JBool(l.v = r.v)

\* the loop of lines 214-218: None, the id of the first match, or a raise
RECURSIVE FindTransitionId(_, _)
FindTransitionId(transitions, transition_name) ==
    IF transitions = <<>> THEN JNull
    ELSE LET m == TransitionMatches(Head(transitions), transition_name)
         IN  IF IsRaise(m) THEN m
             ELSE IF m.v THEN Item(Head(transitions), "id")
             ELSE FindTransitionId(Tail(transitions), transition_name)

TransitionsPath(issue_key) == "/rest/api/3/issue/" \o issue_key.v \o "/transitions"

\* lines 211-232 without the guard of lines 220-221
UnguardedAfterTransitionsGet(o, body) ==
    LET transitions == Get(body, "transitions", JArr(<<>>))
        transition_id ==
            IF IsRaise(transitions) THEN transitions
            ELSE IF transitions.t # "arr" THEN Raise("TypeError")
            ELSE FindTransitionId(transitions.a, o.args.transition_name)
    IN  IF IsRaise(transition_id) THEN transition_id
        ELSE Request(HttpRequest("POST", TransitionsPath(o.args.issue_key), JNull,
                                 JObj([transition |-> JObj([id |-> transition_id])])),
                     MgrOp(o.name, "post", o.args))

\* lines 211-232, after the GET succeeded
AfterTransitionsGet(o, body) ==
    LET transitions == Get(body, "transitions", JArr(<<>>))
        transition_id ==
            IF IsRaise(transitions) THEN transitions
            ELSE IF transitions.t # "arr" THEN Raise("TypeError")
            ELSE FindTransitionId(transitions.a, o.args.transition_name)
    IN  IF IsRaise(transition_id) THEN transition_id
        ELSE IF ~Truthy(transition_id) THEN Return(JBool(FALSE))
        ELSE Request(HttpRequest("POST", TransitionsPath(o.args.issue_key), JNull,
                                 JObj([transition |-> JObj([id |-> transition_id])])),
                     MgrOp(o.name, "post", o.args))

(***************************************************************************)
(* JiraManager: each operation up to its first await, and its resumption   *)
(* with the response.                                                      *)
(***************************************************************************)
\* the rich-text wrapper of create_issue, lines 170-191
IssueData(a) ==
    JObj([fields |-> JObj(
        [project |-> JObj([key |-> a.project_key]),
         summary |-> a.summary,
         description |-> JObj(
             [type |-> JStr("doc"),
              version |-> JNum(1),
              content |-> JArr(<<JObj(
                  [type |-> JStr("paragraph"),
                   content |-> JArr(<<JObj([type |-> JStr("text"),
                                            text |-> a.description])>>)])>>)]),
         issuetype |-> JObj([name |-> a.issue_type])])])

\* the body of the PUT of assign_issue, lines 238-240
AssignData(a) ==
    JObj([accountId |-> IF a.assignee # JChars(<<"m", "e">>) THEN a.assignee ELSE JNull])

MgrStart(name, a) ==
    CASE name = "get_myself" ->
           Request(HttpRequest("GET", "/rest/api/3/myself", JNull, JNull),
                   MgrOp(name, "get", a))
      [] name = "assign_issue" ->
           Request(HttpRequest("PUT", "/rest/api/3/issue/" \o a.issue_key.v \o "/assignee",
                               JNull, AssignData(a)),
                   MgrOp(name, "put", a))
      [] name = "search_issues" ->
           Request(HttpRequest("GET", "/rest/api/3/search",
                               SearchParams(a.jql, a.assignee, a.project, a.max_results),
                               JNull),
                   MgrOp(name, "get", a))
      [] name = "get_issue" ->
           Request(HttpRequest("GET", "/rest/api/3/issue/" \o a.issue_key.v,
                               JObj([fields |-> JStr(IssueFields)]), JNull),
                   MgrOp(name, "get", a))
      [] name = "get_projects" ->
           Request(HttpRequest("GET", "/rest/api/3/project", JNull, JNull),
                   MgrOp(name, "get", a))
      [] name = "create_issue" ->
           Request(HttpRequest("POST", "/rest/api/3/issue", JNull, IssueData(a)),
                   MgrOp(name, "post", a))
      [] name = "transition_issue" ->
           Request(HttpRequest("GET", TransitionsPath(a.issue_key), JNull, JNull),
                   MgrOp(name, "get", a))

\* the value `issue` of a successful get_issue
GetIssueResult(body) ==
    LET issue == IssueFromJson(body)
    IN  IF IsRaise(issue) THEN issue ELSE Return(issue)

MgrResume(o, response) ==
    IF RaisesForStatus(response) THEN Raise("HTTPStatusError")
    ELSE CASE o.name = "get_myself" -> Return(response.body)
           [] o.name = "assign_issue" -> Return(JBool(TRUE))
           [] o.name = "search_issues" ->
                ListResult(IssueFromJson, Get(response.body, "issues", JArr(<<>>)))
           [] o.name = "get_issue" -> GetIssueResult(response.body)
           [] o.name = "get_projects" -> ListResult(ProjectFromJson, response.body)
           [] o.name = "create_issue" -> Return(response.body)
           [] o.name = "transition_issue" /\ o.step = "get" ->
                AfterTransitionsGet(o, response.body)
           [] o.name = "transition_issue" /\ o.step = "post" -> Return(JBool(TRUE))

(***************************************************************************)
(* The dispatcher.  A handler runs to its first await (a call of a         *)
(* JiraManager operation) or to its return; it resumes with the outcome of *)
(* the operation.                                                          *)
(***************************************************************************)
ManagerDefaultMaxResults == 50
ResourceMaxResults == 20
ToolDefaultMaxResults == 20
MyIssuesMaxResults == 30

Call(name, args) == [t |-> "call", name |-> name, args |-> args]

SearchArgs(jql, assignee, project, max_results) ==
    [jql |-> jql, assignee |-> assignee, project |-> project, max_results |-> max_results]

\* x[:10]: a str or a list can be sliced, nothing else the backend sends can
Slice10(j) ==
    IF IsRaise(j) THEN j
    ELSE IF j.t \in {"str", "chars", "arr"} THEN j
    ELSE Raise("TypeError")

RECURSIVE SeqMap(_, _)
SeqMap(F(_), s) == IF s = <<>> THEN <<>> ELSE <<F(Head(s))>> \o SeqMap(F, Tail(s))

IssueKey(issue) == issue.key
IssueUpdated10(issue) == Slice10(issue.updated)

(***************************************************************************)
(* read_resource                                                           *)
(***************************************************************************)
\* json.dumps(payload, ...)
JsonText(payload) == [type |-> "json", payload |-> payload]

\* no except clause: the exception leaves read_resource
PropagatingReadResourceExcept(e) == e

\* except Exception as e: return json.dumps({"error": str(e)})
ReadResourceExcept(e) == Return(JsonText(JObj([error |-> JStr(e.exc)])))

MyIssueData(issue) ==
    JObj([key |-> issue.key, summary |-> issue.summary, status |-> issue.status,
          priority |-> issue.priority, type |-> issue.issue_type,
          updated |-> issue.updated])

ProjectData(project) ==
    JObj([key |-> project.key, name |-> project.name, type |-> project.project_type,
          lead |-> project.lead])

RecentIssueData(issue) ==
    JObj([key |-> issue.key, summary |-> issue.summary, status |-> issue.status,
          assignee |-> issue.assignee, updated |-> issue.updated])

\* the body of the try, up to the await
ReadResourceStart(uri) ==
    CASE uri = "jira://my-issues" ->
           Call("search_issues",
                SearchArgs(JNull, JChars(<<"m", "e">>), JNull, JNum(ResourceMaxResults)))
      [] uri = "jira://projects" -> Call("get_projects", EmptyMap)
      [] uri = "jira://recent-issues" ->
           Call("search_issues",
                SearchArgs(JStr("order by updated DESC"), JNull, JNull,
                           JNum(ResourceMaxResults)))
      [] OTHER -> Raise("ValueError")

\* the body of the try, after the await returned a value
ReadResourceRender(uri, value) ==
    CASE uri = "jira://my-issues" -> Return(JsonText(JArr(SeqMap(MyIssueData, value))))
      [] uri = "jira://projects" -> Return(JsonText(JArr(SeqMap(ProjectData, value))))
      [] uri = "jira://recent-issues" ->
           Return(JsonText(JArr(SeqMap(RecentIssueData, value))))

\* what read_resource gives its caller, from what its try block came to
ReadResourceFinish(uri, o) ==
    IF IsRaise(o) THEN ReadResourceExcept(o)
    ELSE ReadResourceRender(uri, o.value)

(***************************************************************************)
(* call_tool                                                               *)
(***************************************************************************)
\* [types.TextContent(type="text", text=...)]; mark is the leading symbol of
\* the text ("error" for the cross mark), template its wording, data what
\* it interpolates
TextResult(mark, template, data) ==
    Return(<<[type |-> "text",
              text |-> [mark |-> mark, template |-> template, data |-> data]]>>)

\* no except clause: the exception leaves call_tool
PropagatingCallToolExcept(e) == e

\* except Exception as e: the error text
CallToolExcept(e) == TextResult("error", "Error: {e}", <<e.exc>>)

Arg(arguments, k) == Get(arguments, k, JNull)

\* all([...])
RECURSIVE All(_)
All(s) == IF s = <<>> THEN TRUE ELSE Truthy(Head(s)) /\ All(Tail(s))

MyIssuesJql(status_filter) ==
    "assignee = currentUser()"
    \o (IF Truthy(status_filter) THEN " AND status = '" \o status_filter.v \o "'" ELSE "")
    \o " ORDER BY updated DESC"

\* if not issue_key (the negation of it)
GetIssueArgsOk(arguments) == Truthy(Arg(arguments, "issue_key"))

\* all([project_key, summary]): description forgotten
CreateIssueArgsOkWithoutDescription(arguments) ==
    All(<<Arg(arguments, "project_key"), Arg(arguments, "summary")>>)

\* all([project_key, summary, description])
CreateIssueArgsOk(arguments) ==
    All(<<Arg(arguments, "project_key"), Arg(arguments, "summary"),
          Arg(arguments, "description")>>)

\* all([issue_key, transition])
TransitionIssueArgsOk(arguments) ==
    All(<<Arg(arguments, "issue_key"), Arg(arguments, "transition")>>)

\* the body of the try, up to the await or to an early return
CallToolStart(name, arguments) ==
    CASE name = "search_issues" ->
           Call("search_issues",
                SearchArgs(Arg(arguments, "jql"), Arg(arguments, "assignee"),
                           Arg(arguments, "project"),
                           Get(arguments, "max_results", JNum(ToolDefaultMaxResults))))
      [] name = "get_issue" ->
           IF ~GetIssueArgsOk(arguments)
           THEN TextResult("error", "Error: Se requiere issue_key", <<>>)
           ELSE Call("get_issue", [issue_key |-> Arg(arguments, "issue_key")])
      [] name = "create_issue" ->
           IF ~CreateIssueArgsOk(arguments)
           THEN TextResult("error",
                           "Error: Se requieren project_key, summary y description", <<>>)
           ELSE Call("create_issue",
                     [project_key |-> Arg(arguments, "project_key"),
                      summary |-> Arg(arguments, "summary"),
                      description |-> Arg(arguments, "description"),
                      issue_type |-> Get(arguments, "issue_type", JStr("Task"))])
      [] name = "transition_issue" ->
           IF ~TransitionIssueArgsOk(arguments)
           THEN TextResult("error", "Error: Se requieren issue_key y transition", <<>>)
           ELSE Call("transition_issue",
                     [issue_key |-> Arg(arguments, "issue_key"),
                      transition_name |-> Arg(arguments, "transition")])
      [] name = "get_my_issues" ->
           Call("search_issues",
                SearchArgs(JStr(MyIssuesJql(Arg(arguments, "status"))), JNull, JNull,
                           JNum(MyIssuesMaxResults)))
      [] OTHER -> TextResult("error", "Herramienta desconocida: {name}", <<name>>)

\* the body of the try, after the await returned a value
CallToolRender(name, arguments, value) ==
    CASE name = "search_issues" ->
           IF value = <<>>
           THEN TextResult("info", "No se encontraron issues con esos criterios", <<>>)
           ELSE LET r == FirstRaise(SeqMap(IssueUpdated10, value))
                IN  IF IsRaise(r) THEN r
                    ELSE TextResult("info", "Issues encontrados: ({len(issues)} resultados)",
                                    <<Len(value), SeqMap(IssueKey, value)>>)
      [] name = "get_issue" ->
           LET r == FirstRaise(<<Slice10(value.created), Slice10(value.updated)>>)
           IN  IF IsRaise(r) THEN r
               ELSE TextResult("info", "{issue.key} - {issue.summary}", <<value>>)
      [] name = "create_issue" ->
           LET issue_key == Get(value, "key", JNull)
           IN  IF IsRaise(issue_key) THEN issue_key
               ELSE TextResult("ok", "Issue creado exitosamente!",
                               <<issue_key, Arg(arguments, "summary")>>)
      [] name = "transition_issue" ->
           IF Truthy(value)
           THEN TextResult("ok", "Issue {issue_key} movido a '{transition}' exitosamente",
                           <<Arg(arguments, "issue_key"), Arg(arguments, "transition")>>)
           ELSE TextResult("error", "No se pudo mover {issue_key} a '{transition}'",
                           <<Arg(arguments, "issue_key"), Arg(arguments, "transition")>>)
      [] name = "get_my_issues" ->
           IF value = <<>>
           THEN TextResult("info", "No tienes issues asignados", <<>>)
           ELSE TextResult("info", "Mis Issues: ({len(issues)} total)",
                           <<Len(value), SeqMap(IssueKey, value)>>)

\* what call_tool gives its caller, from what its try block came to
CallToolFinish(name, arguments, o) ==
    IF IsRaise(o) THEN CallToolExcept(o)
    ELSE LET r == CallToolRender(name, arguments, o.value)
         IN  IF IsRaise(r) THEN CallToolExcept(r) ELSE r

(***************************************************************************)
(* The inputs: what a client may send, what the backend may answer.        *)
(***************************************************************************)
\* the dicts built from one choice of each optional entry
Combine(A, B) == {a @@ b : a \in A, b \in B}
Optional(k, V) == {EmptyMap} \cup {k :> v : v \in V}

SeqsUpTo(S, n) == UNION {[1..m -> S] : m \in 0..n}

Me == <<"m", "e">>
Assignees == {JChars(Me), JChars(<<"M", "e">>), JChars(<<"M", "E">>),
              JChars(<<"b", "o", "b">>)}
RawQueries == {JStr("status = 'Open'")}
ProjectKeys == {JStr("ABC")}
IssueKeys == {JStr("ABC-1")}

TransitionNames == {<<"D", "o">>, <<"d", "o">>, <<"D", "O">>, <<"G", "o">>}
TransitionIds == {JStr("11"), JStr("21")}

ToolNames == {"search_issues", "get_issue", "create_issue", "transition_issue",
              "get_my_issues"}
ResourceUris == {"jira://my-issues", "jira://projects", "jira://recent-issues"}

ToolArguments(name) ==
    CASE name = "search_issues" ->
           Combine(Optional("jql", RawQueries \cup {JStr("")}),
             Combine(Optional("assignee", Assignees),
               Combine(Optional("project", ProjectKeys),
                       Optional("max_results", {JNum(1)}))))
      [] name = "get_issue" -> Optional("issue_key", IssueKeys \cup {JStr(""), JNull})
      [] name = "create_issue" ->
           Combine(Optional("project_key", ProjectKeys \cup {JStr("")}),
             Combine(Optional("summary", {JStr("Fix login"), JStr("")}),
               Combine(Optional("description", {JStr("It fails"), JStr("")}),
                       Optional("issue_type", {JStr("Bug")}))))
      [] name = "transition_issue" ->
           Combine(Optional("issue_key", IssueKeys \cup {JStr("")}),
                   Optional("transition",
                            {JChars(n) : n \in TransitionNames}
                                \cup {JChars(<<>>), JNum(5)}))
      [] name = "get_my_issues" -> Optional("status", {JStr("Open"), JStr("")})
      [] OTHER -> {EmptyMap}

ManagerArguments(name) ==
    CASE name = "search_issues" ->
           {SearchArgs(jql, assignee, project, max_results) :
               jql \in RawQueries \cup {JNull, JStr("")},
               assignee \in Assignees \cup {JNull, JChars(<<>>)},
               project \in ProjectKeys \cup {JNull, JStr("")},
               max_results \in {JNum(1), JNum(ManagerDefaultMaxResults)}}
      [] name = "get_issue" -> {[issue_key |-> k] : k \in IssueKeys}
      [] name = "get_projects" -> {EmptyMap}
      [] name = "create_issue" ->
           {[project_key |-> p, summary |-> JStr("Fix login"),
             description |-> d, issue_type |-> JStr("Task")] :
               p \in ProjectKeys, d \in {JStr("It fails"), JStr("")}}
      [] name = "transition_issue" ->
           {[issue_key |-> k, transition_name |-> JChars(n)] :
               k \in IssueKeys, n \in TransitionNames}
      [] name = "get_myself" -> {EmptyMap}
      [] name = "assign_issue" ->
           {[issue_key |-> k, assignee |-> a] : k \in IssueKeys, a \in Assignees}

ManagerOps == {"get_myself", "get_projects", "search_issues", "get_issue",
               "create_issue", "transition_issue", "assign_issue"}

\* rich-text documents of a description
Text(s) == JObj([type |-> JStr("text"), text |-> JStr(s)])
Paragraph(content) == JObj([type |-> JStr("paragraph"), content |-> JArr(content)])
Doc(content) == JObj([type |-> JStr("doc"), version |-> JNum(1), content |-> JArr(content)])

Descriptions ==
    {JNull,
     EmptyObj,
     JObj([type |-> JStr("doc"), version |-> JNum(1)]),
     Doc(<<>>),
     Doc(<<Paragraph(<<>>)>>),
     Doc(<<JObj([type |-> JStr("rule")])>>),
     Doc(<<Paragraph(<<Text("It fails")>>)>>),
     Doc(<<Paragraph(<<Text("It fails"), Text(" twice")>>), Paragraph(<<Text("Why")>>)>>)}

RawFields ==
    Combine(Optional("summary", {JStr("Fix login")}),
      Combine(Optional("status", {JObj([name |-> JStr("Open")])}),
        Combine(Optional("assignee", {JNull, JObj([displayName |-> JStr("Ann")])}),
          Combine(Optional("priority", {JNull, JObj([name |-> JStr("High")])}),
            Combine(Optional("description", Descriptions),
                    {EmptyMap,
                     [issuetype |-> JObj([name |-> JStr("Bug")]),
                      created |-> JStr("2024-01-02T03:04:05.000+0000"),
                      updated |-> JStr("2024-02-03T04:05:06.000+0000")]})))))

RawIssue(key, fields) == JObj([key |-> key, fields |-> JObj(fields)])

\* the raw issues a get_issue response may hold
RawIssues == {RawIssue(k, f) : k \in IssueKeys, f \in RawFields}

FullFields ==
    [summary |-> JStr("Fix login"), status |-> JObj([name |-> JStr("Open")]),
     assignee |-> JObj([displayName |-> JStr("Ann")]),
     priority |-> JObj([name |-> JStr("High")]),
     issuetype |-> JObj([name |-> JStr("Bug")]),
     created |-> JStr("2024-01-02T03:04:05.000+0000"),
     updated |-> JStr("2024-02-03T04:05:06.000+0000"),
     description |-> Doc(<<Paragraph(<<Text("It fails")>>)>>)]

\* the raw issues a search response may hold
SearchRawIssues ==
    {RawIssue(JStr("ABC-1"), FullFields),
     RawIssue(JStr("ABC-2"), [FullFields EXCEPT !.assignee = JNull]),
     RawIssue(JStr("ABC-3"), [FullFields EXCEPT !.priority = JNull]),
     RawIssue(JStr("ABC-4"), [FullFields EXCEPT !.description = Doc(<<>>)]),
     RawIssue(JStr("ABC-5"), [FullFields EXCEPT !.updated = JNull]),
     RawIssue(JStr("ABC-6"), EmptyMap),
     RawIssue(JStr("ABC-7"),
              [FullFields EXCEPT !.assignee = JNull, !.priority = JNull,
                                 !.description = JNull])}

RawProjects ==
    {JObj(f) : f \in
        Combine({[key |-> JStr("ABC"), name |-> JStr("Alphabet")]},
          Combine(Optional("projectTypeKey", {JStr("software")}),
                  Optional("lead", {JNull, JObj([displayName |-> JStr("Ann")])})))}

RawTransitions == {JObj([id |-> i, name |-> JChars(n)]) : i \in TransitionIds, n \in TransitionNames}

\* the bodies a successful response to a request may carry
Bodies(o) ==
    CASE o.name = "search_issues" ->
           {EmptyObj} \cup {JObj([issues |-> JArr(a)]) : a \in SeqsUpTo(SearchRawIssues, MaxIssues)}
      [] o.name = "get_issue" -> RawIssues
      [] o.name = "get_projects" -> {JArr(a) : a \in SeqsUpTo(RawProjects, MaxProjects)}
      [] o.name = "create_issue" -> {JObj([id |-> JStr("10001"), key |-> JStr("ABC-9")])}
      [] o.name = "transition_issue" /\ o.step = "get" ->
           {EmptyObj} \cup
           {JObj([transitions |-> JArr(a)]) : a \in SeqsUpTo(RawTransitions, MaxTransitions)}
      [] o.name = "transition_issue" /\ o.step = "post" -> {JNull}
      [] o.name = "get_myself" ->
           {JObj([accountId |-> JStr("5b10a2844c20165700ede21g"),
                  displayName |-> JStr("Ann")])}
      [] o.name = "assign_issue" -> {JNull}

OkStatuses == {200}
ErrorStatuses == {404, 500}

(***************************************************************************)
(* The state machine.  One request is handled at a time (the server reads   *)
(* its transport sequentially); an await of an HTTP response is the only   *)
(* suspension point.                                                       *)
(*   pc      "idle", "await" (suspended on a response) or "done"           *)
(*   frame   the handler running: its entry point, name and arguments      *)
(*   op      the JiraManager operation in flight                           *)
(*   sent    the HTTP requests issued by this invocation, in order         *)
(*   recv    the responses received by this invocation, in order           *)
(*   outcome what the JiraManager operation returned or raised             *)
(*   result  what the entry point returned to (or raised into) its caller  *)
(***************************************************************************)
Pending == [t |-> "pending"]
NotCalled == [t |-> "none"]
NoFrame == [entry |-> "none", name |-> "", arguments |-> EmptyObj]
Frame(entry, name, arguments) == [entry |-> entry, name |-> name, arguments |-> arguments]

Init ==
    /\ pc = "idle"
    /\ frame = NoFrame
    /\ op = NoOp
    /\ sent = <<>>
    /\ recv = <<>>
    /\ outcome = NotCalled
    /\ result = Pending

\* an exception leaving the try block at once, or an early return
Immediate(fr, start) ==
    IF IsRaise(start)
    THEN CASE fr.entry = "call_tool" -> CallToolExcept(start)
           [] fr.entry = "read_resource" -> ReadResourceExcept(start)
           [] OTHER -> start
    ELSE start

\* the entry point's result from the outcome of the operation it awaited
Finish(fr, o) ==
    CASE fr.entry = "call_tool" -> CallToolFinish(fr.name, fr.arguments, o)
      [] fr.entry = "read_resource" -> ReadResourceFinish(fr.name, o)
      [] OTHER -> o

Enter(fr, start) ==
    /\ pc = "idle"
    /\ frame' = fr
    /\ recv' = <<>>
    /\ IF start.t = "call"
       THEN LET s == MgrStart(start.name, start.args)
            IN  /\ pc' = "await"
                /\ op' = s.op
                /\ sent' = <<s.req>>
                /\ outcome' = Pending
                /\ result' = Pending
       ELSE /\ pc' = "done"
            /\ op' = NoOp
            /\ sent' = <<>>
            /\ outcome' = NotCalled
            /\ result' = Immediate(fr, start)

CallTool ==
    /\ pc = "idle"
    /\ \E name \in ToolNames \cup {"delete_issue"} :
           \E arguments \in ToolArguments(name) :
               Enter(Frame("call_tool", name, JObj(arguments)),
                     CallToolStart(name, JObj(arguments)))

ReadResource ==
    /\ pc = "idle"
    /\ \E uri \in ResourceUris \cup {"jira://sprints"} :
           Enter(Frame("read_resource", uri, EmptyObj), ReadResourceStart(uri))

ManagerCall ==
    /\ pc = "idle"
    /\ \E name \in ManagerOps :
           \E a \in ManagerArguments(name) :
               Enter(Frame("manager", name, a), Call(name, a))

\* the awaited response arrives and the handler runs to its next await or
\* to its end
Resume(response) ==
    /\ pc = "await"
    /\ recv' = Append(recv, response)
    /\ frame' = frame
    /\ LET o == MgrResume(op, response)
       IN  IF o.t = "request"
           THEN /\ pc' = "await"
                /\ op' = o.op
                /\ sent' = Append(sent, o.req)
                /\ UNCHANGED <<outcome, result>>
           ELSE /\ pc' = "done"
                /\ outcome' = o
                /\ result' = Finish(frame, o)
                /\ UNCHANGED <<op, sent>>

RespondOk ==
    /\ pc = "await"
    /\ \E status \in OkStatuses : \E body \in Bodies(op) :
           Resume([status |-> status, body |-> body])

RespondError ==
    /\ pc = "await"
    /\ \E status \in ErrorStatuses :
           Resume([status |-> status, body |-> EmptyObj])

\* the handler's result has been delivered; the next request is accepted
Deliver ==
    /\ pc = "done"
    /\ pc' = "idle"
    /\ frame' = NoFrame
    /\ op' = NoOp
    /\ sent' = <<>>
    /\ recv' = <<>>
    /\ outcome' = NotCalled
    /\ result' = Pending

Next == CallTool \/ ReadResource \/ ManagerCall \/ RespondOk \/ RespondError \/ Deliver

Spec == Init /\ [][Next]_vars

(***************************************************************************)
(* Properties.                                                             *)
(***************************************************************************)
\* equality of two strings ignoring letter case, letter by letter
CasePairs == {<<"m", "M">>, <<"e", "E">>, <<"d", "D">>, <<"o", "O">>, <<"g", "G">>,
              <<"b", "B">>}
SameLetter(x, y) == x = y \/ <<x, y>> \in CasePairs \/ <<y, x>> \in CasePairs
EqualIgnoringCase(a, b) ==
    Len(a) = Len(b) /\ \A i \in 1..Len(a) : SameLetter(a[i], b[i])

Failed(i) == recv[i].status >= 400

\* ---- transition_issue ----
InTransition == op.name = "transition_issue"
GetSucceeded == Len(recv) >= 1 /\ ~Failed(1)
\* the transitions the GET fetched
Fetched ==
    IF "transitions" \in DOMAIN recv[1].body.f THEN recv[1].body.f.transitions.a ELSE <<>>
Requested == op.args.transition_name
MatchingAt ==
    {i \in 1..Len(Fetched) :
        Requested.t = "chars" /\ EqualIgnoringCase(Fetched[i].f.name.v, Requested.v)}
FirstMatch == CHOOSE i \in MatchingAt : \A j \in MatchingAt : i <= j
Posts == {i \in 1..Len(sent) : sent[i].method = "POST"}
TransitionPost(id) ==
    HttpRequest("POST", "/rest/api/3/issue/" \o op.args.issue_key.v \o "/transitions",
                JNull, JObj([transition |-> JObj([id |-> id])]))

\* C1: in transition_issue, when no fetched transition matches the requested
\* name the operation returns False and issues no POST; a POST is issued
\* only as the second request, after a successful GET of the same issue's
\* transitions that produced a match, and carries the matched transition's id.
C1_NoMatchNoPost ==
    InTransition =>
        /\ (GetSucceeded /\ Requested.t = "chars" /\ MatchingAt = {}) =>
               /\ pc = "done"
               /\ outcome = Return(JBool(FALSE))
               /\ Posts = {}
        /\ \A i \in Posts :
               /\ i = 2
               /\ sent[1].method = "GET"
               /\ sent[1].path = sent[2].path
               /\ GetSucceeded
               /\ MatchingAt # {}
               /\ sent[2] = TransitionPost(Fetched[FirstMatch].f.id)

C1_Witness ==
    /\ InTransition
    /\ pc = "done"
    /\ GetSucceeded
    /\ Len(Fetched) = MaxTransitions
    /\ Requested.t = "chars"
    /\ MatchingAt = {}
    /\ outcome = Return(JBool(FALSE))
    /\ Len(sent) = 1

\* C10: transition resolution ignores letter case: when some fetched
\* transition's name equals the requested name ignoring case, the POST carries
\* the id of the first such transition in backend order, and the operation
\* returns True when that POST succeeds.
C10_CaseInsensitiveFirstMatch ==
    (InTransition /\ GetSucceeded /\ Requested.t = "chars" /\ MatchingAt # {}) =>
        /\ Len(sent) = 2
        /\ sent[2] = TransitionPost(Fetched[FirstMatch].f.id)
        /\ (Len(recv) = 2 /\ ~Failed(2)) => (pc = "done" /\ outcome = Return(JBool(TRUE)))

C10_Witness ==
    /\ InTransition
    /\ pc = "done"
    /\ GetSucceeded
    /\ Requested.t = "chars"
    /\ Cardinality(MatchingAt) = 2
    /\ Fetched[1].f.id # Fetched[2].f.id
    /\ Fetched[FirstMatch].f.name.v # Requested.v
    /\ Len(recv) = 2
    /\ outcome = Return(JBool(TRUE))

\* ---- search_issues: the query expression ----
InSearch == op.name = "search_issues"
\* search_issues called with the client's jql, assignee and project
BuilderCall ==
    /\ frame.name = "search_issues"
    /\ frame.entry \in {"manager", "call_tool"}
\* the argument k as the client gave it (None when absent)
Given(k) ==
    IF frame.entry = "manager" THEN frame.arguments[k]
    ELSE IF k \in DOMAIN frame.arguments.f THEN frame.arguments.f[k]
    ELSE JNull
NonEmpty(j) == (j.t = "str" /\ j.v # "") \/ (j.t = "chars" /\ j.v # <<>>)
SentJql == sent[1].params.f.jql

\* C4: a non-empty raw query is sent to the backend exactly as given, whatever
\* the assignee and project arguments are.
C4_RawQueryVerbatim ==
    (BuilderCall /\ NonEmpty(Given("jql"))) =>
        /\ Len(sent) = 1
        /\ sent[1].method = "GET"
        /\ sent[1].path = "/rest/api/3/search"
        /\ SentJql = Given("jql")

C4_Witness ==
    /\ BuilderCall
    /\ NonEmpty(Given("jql"))
    /\ NonEmpty(Given("assignee"))
    /\ NonEmpty(Given("project"))
    /\ pc = "done"
    /\ SentJql = Given("jql")

\* the query the builder is to produce without a raw query; isMe says
\* whether the assignee counts as the current user
ExpectedQuery(isMe, assignee, project) ==
    LET a == IF isMe THEN "assignee = currentUser()"
             ELSE "assignee = '" \o Str(assignee.v) \o "'"
        p == "project = '" \o project.v \o "'"
    IN  IF NonEmpty(assignee) /\ NonEmpty(project) THEN a \o " AND " \o p
        ELSE IF NonEmpty(assignee) THEN a
        ELSE IF NonEmpty(project) THEN p
        ELSE "order by updated DESC"

IsLiteralMe(assignee) == assignee.t = "chars" /\ assignee.v = <<"m", "e">>
IsMeIgnoringCase(assignee) ==
    assignee.t = "chars" /\ EqualIgnoringCase(assignee.v, <<"m", "e">>)

\* C5 as stated: without a raw query, the assignee condition is
\* assignee = currentUser() exactly when the assignee is the literal "me"
\* (any other spelling is quoted), then project = '<value>', joined by ' AND ',
\* and 'order by updated DESC' when there is no condition.
C5_LiteralMe ==
    (BuilderCall /\ ~NonEmpty(Given("jql"))) =>
        /\ Len(sent) >= 1
        /\ SentJql = JStr(ExpectedQuery(IsLiteralMe(Given("assignee")),
                                        Given("assignee"), Given("project")))

\* C5 amended: as C5, but the assignee condition is assignee = currentUser()
\* exactly when the assignee equals "me" ignoring letter case ("Me", "ME").
C5_MeIgnoringCase ==
    (BuilderCall /\ ~NonEmpty(Given("jql"))) =>
        /\ Len(sent) >= 1
        /\ SentJql = JStr(ExpectedQuery(IsMeIgnoringCase(Given("assignee")),
                                        Given("assignee"), Given("project")))

C5_Witness ==
    /\ BuilderCall
    /\ ~NonEmpty(Given("jql"))
    /\ Given("assignee") = JChars(<<"M", "e">>)
    /\ NonEmpty(Given("project"))
    /\ SentJql = JStr("assignee = currentUser() AND project = 'ABC'")

\* C9: search_issues returns at most max_results issues, whatever the
\* backend's response holds.
C9_AtMostMaxResults ==
    (InSearch /\ pc = "done" /\ outcome.t = "return") =>
        Len(outcome.value) <= op.args.max_results.v

\* ---- normalization of issues ----
Answered == Len(recv) = 1 /\ ~Failed(1)
\* the raw issues of the response, in order
RawIssuesReceived ==
    IF op.name = "get_issue" THEN <<recv[1].body>>
    ELSE IF "issues" \in DOMAIN recv[1].body.f THEN recv[1].body.f.issues.a
    ELSE <<>>
\* the issues the operation returned, in order
IssuesReturned == IF op.name = "get_issue" THEN <<outcome.value>> ELSE outcome.value
Normalizing == op.name \in {"get_issue", "search_issues"} /\ Answered

AbsentOrNull(fields, k) == k \notin DOMAIN fields \/ fields[k] = JNull

\* a description that is null, absent, a document of zero paragraphs, or a
\* document whose first block has an empty or absent content list
ShallowDescription(fields) ==
    \/ AbsentOrNull(fields, "description")
    \/ LET d == fields.description
       IN  /\ d.t = "obj"
           /\ "content" \in DOMAIN d.f
           /\ \/ d.f.content.a = <<>>
              \/ "content" \notin DOMAIN d.f.content.a[1].f
              \/ d.f.content.a[1].f.content.a = <<>>

\* C2: normalization never fails on the description: a description that is
\* null, absent, of zero paragraphs, or whose first block has an empty or
\* absent content list gives an Issue with description "".
C2_ShallowDescriptionTolerated ==
    (Normalizing /\ \A i \in 1..Len(RawIssuesReceived) :
                        ShallowDescription(RawIssuesReceived[i].f.fields.f)) =>
        /\ outcome.t = "return"
        /\ \A i \in 1..Len(IssuesReturned) : IssuesReturned[i].description = JStr("")

\* the three optional fields are each absent or null
SentinelCase(fields) ==
    \A k \in {"assignee", "priority", "description"} : AbsentOrNull(fields, k)

\* every field the raw issue has is copied unchanged
Copied(raw, issue) ==
    LET fields == raw.f.fields.f
    IN  /\ issue.key = raw.f.key
        /\ "summary" \in DOMAIN fields => issue.summary = fields.summary
        /\ "status" \in DOMAIN fields => issue.status = fields.status.f.name
        /\ "issuetype" \in DOMAIN fields => issue.issue_type = fields.issuetype.f.name
        /\ "created" \in DOMAIN fields => issue.created = fields.created
        /\ "updated" \in DOMAIN fields => issue.updated = fields.updated

\* no field of the Issue is None
Populated(issue) ==
    \A v \in {issue.key, issue.summary, issue.status, issue.assignee, issue.priority,
              issue.issue_type, issue.created, issue.updated, issue.description} :
        v.t = "str"

SentinelsYielded(unassigned, noPriority) ==
    (Normalizing /\ \A i \in 1..Len(RawIssuesReceived) :
                        SentinelCase(RawIssuesReceived[i].f.fields.f)) =>
        /\ outcome.t = "return"
        /\ Len(IssuesReturned) = Len(RawIssuesReceived)
        /\ \A i \in 1..Len(IssuesReturned) :
               /\ IssuesReturned[i].assignee = JStr(unassigned)
               /\ IssuesReturned[i].priority = JStr(noPriority)
               /\ IssuesReturned[i].description = JStr("")
               /\ Copied(RawIssuesReceived[i], IssuesReturned[i])
               /\ Populated(IssuesReturned[i])

KnownUris == {"jira://my-issues", "jira://projects", "jira://recent-issues"}
BackendFailed == \E i \in 1..Len(recv) : Failed(i)
\* a JSON payload with an "error" field, returned
IsErrorPayload(r) ==
    /\ r.t = "return"
    /\ r.value.type = "json"
    /\ r.value.payload.t = "obj"
    /\ "error" \in DOMAIN r.value.payload.f

\* C6: read_resource never raises: an unknown URI gives a JSON payload with
\* an error field without any backend request, and a backend failure during
\* a known resource read gives a JSON payload with an error field.
C6_ReadResourceNeverRaises ==
    frame.entry = "read_resource" =>
        /\ frame.name \notin KnownUris =>
               (pc = "done" /\ sent = <<>> /\ IsErrorPayload(result))
        /\ pc = "done" => (result.t = "return" /\ result.value.type = "json")
        /\ (pc = "done" /\ BackendFailed) => IsErrorPayload(result)

C6_Witness ==
    /\ frame.entry = "read_resource"
    /\ frame.name \notin KnownUris
    /\ pc = "done"
    /\ sent = <<>>
    /\ IsErrorPayload(result)

IsText(r) ==
    /\ r.t = "return"
    /\ Len(r.value) = 1
    /\ r.value[1].type = "text"
IsErrorText(r) == IsText(r) /\ r.value[1].text.mark = "error"

RequiredParameters(name) ==
    CASE name = "get_issue" -> {"issue_key"}
      [] name = "create_issue" -> {"project_key", "summary", "description"}
      [] name = "transition_issue" -> {"issue_key", "transition"}
      [] OTHER -> {}

MissingOrEmpty(arguments, k) ==
    \/ AbsentOrNull(arguments.f, k)
    \/ arguments.f[k] \in {JStr(""), JChars(<<>>)}

\* C7: a tool call with a required parameter missing or empty returns an
\* error text and issues no backend request.
C7_ValidationBeforeBackend ==
    (/\ frame.entry = "call_tool"
     /\ \E k \in RequiredParameters(frame.name) : MissingOrEmpty(frame.arguments, k)) =>
        /\ pc = "done"
        /\ sent = <<>>
        /\ recv = <<>>
        /\ IsErrorText(result)

C7_Witness ==
    /\ frame.entry = "call_tool"
    /\ frame.name = "create_issue"
    /\ ~MissingOrEmpty(frame.arguments, "project_key")
    /\ ~MissingOrEmpty(frame.arguments, "summary")
    /\ "description" \notin DOMAIN frame.arguments.f
    /\ pc = "done"
    /\ sent = <<>>
    /\ IsErrorText(result)

KnownTools == {"search_issues", "get_issue", "create_issue", "transition_issue",
               "get_my_issues"}

\* C8: call_tool never propagates a failure: it always returns a text
\* result, an error text after a backend failure at any request, and an error
\* text without any backend request for an unknown tool name.
C8_CallToolNeverPropagates ==
    frame.entry = "call_tool" =>
        /\ pc = "done" => IsText(result)
        /\ (pc = "done" /\ BackendFailed) => IsErrorText(result)
        /\ frame.name \notin KnownTools =>
               (pc = "done" /\ sent = <<>> /\ IsErrorText(result))

C8_Witness ==
    /\ frame.entry = "call_tool"
    /\ frame.name = "transition_issue"
    /\ pc = "done"
    /\ Len(sent) = 2
    /\ Len(recv) = 2
    /\ Failed(2)
    /\ IsErrorText(result)

\* ---- get_projects ----
\* the raw projects of the response, in backend order
RawProjectsReceived == recv[1].body.a
ListingProjects == op.name = "get_projects" /\ Answered

\* C11: get_projects guards lead as issue normalization guards assignee: when
\* every raw project's lead is absent or null, normalization succeeds with one
\* Project per raw project in backend order, lead the sentinel (the code's
\* 'Sin asignar' for the 'unassigned' of the claim) and a missing
\* projectTypeKey giving 'unknown'.
C11_LeadNullGuarded ==
    (ListingProjects /\ \A i \in 1..Len(RawProjectsReceived) :
                            AbsentOrNull(RawProjectsReceived[i].f, "lead")) =>
        /\ outcome.t = "return"
        /\ Len(outcome.value) = Len(RawProjectsReceived)
        /\ \A i \in 1..Len(outcome.value) :
               /\ outcome.value[i].key = RawProjectsReceived[i].f.key
               /\ outcome.value[i].name = RawProjectsReceived[i].f.name
               /\ outcome.value[i].lead = JStr("Sin asignar")
               /\ "projectTypeKey" \notin DOMAIN RawProjectsReceived[i].f =>
                      outcome.value[i].project_type = JStr("unknown")

\* ---- the requests of a JiraManager operation ----
Invoked == op.name # "none"

\* C12: every JiraManager operation other than transition_issue issues exactly
\* one request per invocation; transition_issue issues its GET and then, after
\* the GET's successful response, at most one POST; a failed request raises
\* out of the operation, is never issued again, and is the last request of the
\* invocation.
C12_RequestDiscipline ==
    Invoked =>
        /\ op.name # "transition_issue" => Len(sent) = 1
        /\ op.name = "transition_issue" =>
               /\ Len(sent) \in {1, 2}
               /\ sent[1].method = "GET"
               /\ Len(sent) = 2 =>
                      (sent[2].method = "POST" /\ Len(recv) >= 1 /\ ~Failed(1))
        /\ Len(recv) <= Len(sent)
        /\ \A i \in 1..Len(recv) :
               Failed(i) =>
                   /\ pc = "done"
                   /\ outcome = Raise("HTTPStatusError")
                   /\ frame.entry = "manager" => result = Raise("HTTPStatusError")
                   /\ Len(recv) = i
                   /\ Len(sent) = i
        /\ \A i, j \in 1..Len(sent) : i # j => sent[i] # sent[j]

C12_Witness ==
    /\ frame.entry = "manager"
    /\ op.name = "transition_issue"
    /\ pc = "done"
    /\ Len(sent) = 2
    /\ sent[1].method = "GET"
    /\ sent[2].method = "POST"
    /\ Len(recv) = 2
    /\ Failed(2)
    /\ result = Raise("HTTPStatusError")

====
